---- MODULE Spec2Model ----
(***************************************************************************)
(* Model of the ERP database-access bridge (mcp-server): the JSON-RPC      *)
(* session handler on its two transports (stdio-server.ts, index.ts        *)
(* POST /mcp), the generic CRUD dispatcher handleCrudOperation, the REST    *)
(* route POST /api/mcp/execute, and the stdio transport as a stream of     *)
(* chunks with handlers suspended side by side.                            *)
(*                                                                         *)
(* Text is modelled as a sequence of tokens.  Caller-supplied identifiers  *)
(* (operation, table and column names) are sequences of one-character      *)
(* tokens, so that toLowerCase, === and interpolation into a template      *)
(* literal are computed on the characters; the literal parts of a template *)
(* are single tokens.                                                      *)
(***************************************************************************)
EXTENDS Integers, Sequences, FiniteSets, TLC

VARIABLES
    cur,      \* the request being handled: transport, input, position, captured id
    out,      \* the response objects written for that request, in order
    dbLog,    \* the statements handed to the Prisma client for that request
    dbReply,  \* the database's answer to the awaited statement
    call,     \* handleCrudOperation called on its own: arguments and position
    callRes,  \* what that call returned or threw
    stdin,    \* the stdio stream: the lines the client wrote, and what has yet to arrive
    inflight, \* the stdin handlers suspended at their await, oldest first
    db        \* the database behind the client, where its content matters

vars == <<cur, out, dbLog, dbReply, call, callRes, stdin, inflight, db>>

-----------------------------------------------------------------------------
(* Bounds *)

\* the largest number of columns in a data or where mapping of a request
MaxCols == 2

-----------------------------------------------------------------------------
(* JavaScript values *)

\* the value undefined, where an atom (id, method, tool name) is expected
Undefined == "<undefined>"
\* the value undefined, where a string or a scalar value (token sequences) is expected
UndefinedStr == <<"<undefined>">>
\* JSON null as an id
JsNull == "<null>"
\* an absent data / where mapping
NoObject == [t |-> "undefined", kv |-> <<>>]

\* an object literal with the given members, in the order JSON.parse saw them
Obj(kv) == [t |-> "object", kv |-> kv]

\* truthiness of a data / where argument: any object, even {}, is truthy
Truthy(o) == o.t = "object"

\* Object.keys: own keys in insertion order (no key here is integer-like)
ObjectKeys(o) == [i \in 1..Len(o.kv) |-> o.kv[i][1]]

\* Object.values: the values in the same order
ObjectValues(o) == [i \in 1..Len(o.kv) |-> o.kv[i][2]]

\* property read o[k]: undefined when absent
Get(o, k) ==
    IF \E i \in 1..Len(o.kv) : o.kv[i][1] = k
    THEN o.kv[CHOOSE i \in 1..Len(o.kv) : o.kv[i][1] = k][2]
    ELSE UndefinedStr

\* { ...o, k: v }: an existing key keeps its place, a new key goes last
Put(o, k, v) ==
    IF \E i \in 1..Len(o.kv) : o.kv[i][1] = k
    THEN Obj([i \in 1..Len(o.kv) |->
                 IF o.kv[i][1] = k THEN <<k, v>> ELSE o.kv[i]])
    ELSE Obj(Append(o.kv, <<k, v>>))

\* String.prototype.toLowerCase on one character
LowerChar(c) ==
    CASE c = "S" -> "s" [] c = "E" -> "e" [] c = "L" -> "l" [] c = "C" -> "c"
      [] c = "T" -> "t" [] c = "U" -> "u" [] c = "P" -> "p" [] c = "D" -> "d"
      [] c = "A" -> "a" [] c = "I" -> "i" [] c = "N" -> "n" [] c = "R" -> "r"
      [] c = "B" -> "b" [] c = "J" -> "j" [] c = "M" -> "m" [] c = "G" -> "g"
      [] OTHER -> c

ToLowerCase(s) == [i \in 1..Len(s) |-> LowerChar(s[i])]

\* ${s} in a template literal
Interp(s) == IF s = UndefinedStr
             THEN <<"u", "n", "d", "e", "f", "i", "n", "e", "d">>
             ELSE s

RECURSIVE Join(_, _)
\* Array.prototype.join: the parts separated by sep
Join(parts, sep) ==
    IF Len(parts) = 0 THEN <<>>
    ELSE IF Len(parts) = 1 THEN parts[1]
    ELSE parts[1] \o <<sep>> \o Join(Tail(parts), sep)

-----------------------------------------------------------------------------
(* Statements and the generic CRUD dispatcher *)

\* no statement
NoStmt == [api |-> "none", text |-> <<>>, params |-> <<>>,
           where |-> NoObject, data |-> NoObject]

\* prisma.$queryRawUnsafe(text, ...params): SQL text and its bound parameters
RawStmt(text, params) ==
    [api |-> "$queryRawUnsafe", text |-> text, params |-> params,
     where |-> NoObject, data |-> NoObject]

\* a call of the typed client prisma.subject.<method>({ where, data })
TypedStmt(method, where, data) ==
    [api |-> method, text |-> <<>>, params |-> <<>>,
     where |-> where, data |-> data]

\* an async function's completion before the database answers:
\* it threw, or it awaits the statement it has issued
Throw(message) == [t |-> "throw", message |-> message, stmt |-> NoStmt]
Await(stmt) == [t |-> "await", message |-> <<>>, stmt |-> stmt]

\* the message of the TypeError a property read or Object.keys of undefined throws
TypeErrorMessage == <<"TypeError: Cannot read properties of undefined">>

\* new Date()
Now == <<"<now>">>

\* the table with a typed fast path
Subjects == <<"s", "u", "b", "j", "e", "c", "t", "s">>

\* keys.map((key, i) => `${key} = $${offset + i + 1}`)
EqualityTerms(keys, offset) ==
    [i \in 1..Len(keys) |-> Interp(keys[i]) \o <<" = $", ToString(offset + i)>>]

\* a WHERE clause that writes each value into the text, quoted, instead of
\* a placeholder
SelectWhereClauseInlined(where) ==
    IF Truthy(where)
    THEN <<"WHERE ">> \o
         Join([i \in 1..Len(where.kv) |->
                  Interp(where.kv[i][1]) \o <<" = '">> \o where.kv[i][2] \o <<"'">>],
              " AND ")
    ELSE <<>>

\* where ? `WHERE ${Object.keys(where).map(...).join(" AND ")}` : ""
SelectWhereClause(where) ==
    IF Truthy(where)
    THEN <<"WHERE ">> \o Join(EqualityTerms(ObjectKeys(where), 0), " AND ")
    ELSE <<>>

\* where ? Object.values(where) : []
SelectValues(where) == IF Truthy(where) THEN ObjectValues(where) ELSE <<>>

\* Object.keys(data).join(", ")
InsertColumns(data) == Join([i \in 1..Len(data.kv) |-> Interp(ObjectKeys(data)[i])], ", ")

\* Object.keys(data).map((_, i) => `$${i + 1}`).join(", ")
InsertPlaceholders(data) ==
    Join([i \in 1..Len(data.kv) |-> <<"$", ToString(i)>>], ", ")

\* Object.keys(data).map((key, i) => `${key} = $${i + 1}`).join(", ")
UpdateSetClause(data) == Join(EqualityTerms(ObjectKeys(data), 0), ", ")

\* a WHERE clause of update that numbers its placeholders from 1 again
UpdateWhereClauseFromOne(data, where) ==
    IF Truthy(where)
    THEN <<"WHERE ">> \o Join(EqualityTerms(ObjectKeys(where), 0), " AND ")
    ELSE <<>>

\* where ? `WHERE ${... `${key} = $${Object.keys(data).length + i + 1}` ...}` : ""
UpdateWhereClause(data, where) ==
    IF Truthy(where)
    THEN <<"WHERE ">> \o
         Join(EqualityTerms(ObjectKeys(where), Len(ObjectKeys(data))), " AND ")
    ELSE <<>>

\* [...Object.values(data), ...(where ? Object.values(where) : [])]
UpdateValues(data, where) ==
    ObjectValues(data) \o (IF Truthy(where) THEN ObjectValues(where) ELSE <<>>)

\* a WHERE clause of delete that numbers its placeholders from 0
DeleteWhereClauseFromZero(where) ==
    IF Truthy(where)
    THEN <<"WHERE ">> \o Join(EqualityTerms(ObjectKeys(where), -1), " AND ")
    ELSE <<>>

\* where ? `WHERE ${...}` : "" of the delete branch
DeleteWhereClause(where) ==
    IF Truthy(where)
    THEN <<"WHERE ">> \o Join(EqualityTerms(ObjectKeys(where), 0), " AND ")
    ELSE <<>>

\* where ? Object.values(where) : [] of the delete branch
DeleteValues(where) == IF Truthy(where) THEN ObjectValues(where) ELSE <<>>

\* a select branch that takes the typed path for any letter case of the name
CrudSelectAnyCase(table, where) ==
    IF ToLowerCase(table) = Subjects
    THEN Await(TypedStmt("subject.findMany", where, NoObject))
    ELSE Await(RawStmt(<<"SELECT * FROM ">> \o Interp(table) \o <<" ">>
                          \o SelectWhereClause(where),
                       SelectValues(where)))

\* case "select"
CrudSelect(table, where) ==
    IF table = Subjects
    THEN Await(TypedStmt("subject.findMany", where, NoObject))
    ELSE Await(RawStmt(<<"SELECT * FROM ">> \o Interp(table) \o <<" ">>
                          \o SelectWhereClause(where),
                       SelectValues(where)))

\* the audit columns of the typed model
CreatedAt == <<"c", "r", "e", "a", "t", "e", "d", "A", "t">>
UpdatedAt == <<"u", "p", "d", "a", "t", "e", "d", "A", "t">>

\* data.createdAt || new Date()
OrNow(v) == IF v = UndefinedStr THEN Now ELSE v

\* case "insert"
CrudInsert(table, data) ==
    IF ~Truthy(data) THEN Throw(TypeErrorMessage)
    ELSE IF table = Subjects
    THEN Await(TypedStmt("subject.create", NoObject,
                 Put(Put(data, CreatedAt, OrNow(Get(data, CreatedAt))),
                     UpdatedAt, OrNow(Get(data, UpdatedAt)))))
    ELSE Await(RawStmt(<<"INSERT INTO ">> \o Interp(table) \o <<" (">>
                          \o InsertColumns(data) \o <<") VALUES (">>
                          \o InsertPlaceholders(data) \o <<") RETURNING *">>,
                       ObjectValues(data)))

\* case "update"
CrudUpdate(table, data, where) ==
    IF table = Subjects
    THEN Await(TypedStmt("subject.updateMany", where,
                 Put(IF Truthy(data) THEN data ELSE Obj(<<>>),
                     UpdatedAt, Now)))
    ELSE IF ~Truthy(data) THEN Throw(TypeErrorMessage)
    ELSE Await(RawStmt(<<"UPDATE ">> \o Interp(table) \o <<" SET ">>
                          \o UpdateSetClause(data) \o <<" ">>
                          \o UpdateWhereClause(data, where) \o <<" RETURNING *">>,
                       UpdateValues(data, where)))

\* case "delete"
CrudDelete(table, where) ==
    IF table = Subjects
    THEN Await(TypedStmt("subject.deleteMany", where, NoObject))
    ELSE Await(RawStmt(<<"DELETE FROM ">> \o Interp(table) \o <<" ">>
                          \o DeleteWhereClause(where) \o <<" RETURNING *">>,
                       DeleteValues(where)))

Select == <<"s", "e", "l", "e", "c", "t">>
Insert == <<"i", "n", "s", "e", "r", "t">>
Update == <<"u", "p", "d", "a", "t", "e">>
Delete == <<"d", "e", "l", "e", "t", "e">>

\* a switch whose default runs the select branch instead of throwing
HandleCrudOperationNoDefault(operation, table, data, where) ==
    IF operation = UndefinedStr THEN Throw(TypeErrorMessage)
    ELSE LET op == ToLowerCase(operation) IN
         CASE op = Insert -> CrudInsert(table, data)
           [] op = Update -> CrudUpdate(table, data, where)
           [] op = Delete -> CrudDelete(table, where)
           [] OTHER -> CrudSelect(table, where)

\* handleCrudOperation(operation, table, data, where), up to its await
HandleCrudOperation(operation, table, data, where) ==
    IF operation = UndefinedStr THEN Throw(TypeErrorMessage)
    ELSE LET op == ToLowerCase(operation) IN
         CASE op = Select -> CrudSelect(table, where)
           [] op = Insert -> CrudInsert(table, data)
           [] op = Update -> CrudUpdate(table, data, where)
           [] op = Delete -> CrudDelete(table, where)
           [] OTHER -> Throw(<<"Unknown operation: ">> \o Interp(operation))

-----------------------------------------------------------------------------
(* The database, as the handlers see it *)

\* what an awaited statement resolves or rejects with: rows (with or without a
\* 64-bit integer column, a BigInt in the driver's result), or an error whose
\* message may be empty
DbReplies ==
    { [t |-> "rows", big |-> b, message |-> <<>>] : b \in {"none", "bigint"} } \cup
    { [t |-> "error", big |-> "none", message |-> m] : m \in {<<"db error">>, <<>>} }

\* the rejections among them
DbErrors == { r \in DbReplies : r.t = "error" }

\* what the typed client resolves with besides rows: the one created record
\* (create), or a count of the records touched (updateMany, deleteMany)
TypedReplies ==
    { [t |-> "row", big |-> b, message |-> <<>>] : b \in {"none", "bigint"} } \cup
    { [t |-> "count", big |-> "none", message |-> <<>>] }

NoReply == [t |-> "none", big |-> "none", message |-> <<>>]

-----------------------------------------------------------------------------
(* The JSON-RPC envelope *)

\* an absent array
NoArray == [t |-> "undefined", items |-> <<>>]
Arr(items) == [t |-> "array", items |-> items]

\* message.params.arguments absent
NoArgs == [t |-> "undefined", query |-> UndefinedStr, qparams |-> NoArray,
           operation |-> UndefinedStr, table |-> UndefinedStr,
           data |-> NoObject, where |-> NoObject]

\* message.params absent
NoParams == [t |-> "undefined", name |-> Undefined, args |-> NoArgs]

\* no input
NoChunk == [t |-> "none", jsonrpc |-> Undefined, id |-> Undefined,
            method |-> Undefined, params |-> NoParams]

\* a result or error member that is not there
NoValue == [kind |-> "undefined"]

\* sendResponse: JSON.stringify leaves out a member whose value is undefined
SendResponse(id, result) ==
    [members |-> {"jsonrpc"} \cup (IF id = Undefined THEN {} ELSE {"id"})
                             \cup (IF result = NoValue THEN {} ELSE {"result"}),
     id |-> id, result |-> result, code |-> 0, message |-> <<>>, status |-> 0]

\* sendError
SendError(id, code, message) ==
    [members |-> {"jsonrpc", "error"} \cup (IF id = Undefined THEN {} ELSE {"id"}),
     id |-> id, result |-> NoValue, code |-> code, message |-> message, status |-> 0]

\* res.status(n).json(body); res.json(body) answers 200
ResJson(status, body) == [body EXCEPT !.status = status]

\* the error-handling middleware registered before the /mcp route
ErrorMiddleware ==
    [members |-> {"success", "error", "timestamp"}, id |-> Undefined,
     result |-> NoValue, code |-> 0, message |-> <<"Internal server error">>,
     status |-> 500]

\* the result of initialize
InitializeResult ==
    [kind |-> "initialize", protocolVersion |-> "2024-11-05", listChanged |-> FALSE,
     name |-> "erp-mcp-server", version |-> "1.0.0"]

\* the catalog of tools/list; the stdio catalog types the items of params,
\* defaults it to [] and closes the schema of query_database
ToolsListResult(chan) ==
    [kind |-> "tools",
     tools |-> << [name |-> "query_database", properties |-> <<"query", "params">>,
                   required |-> <<"query">>,
                   paramsItems |-> IF chan = "stdio" THEN "string" ELSE Undefined,
                   paramsDefault |-> IF chan = "stdio" THEN "[]" ELSE Undefined,
                   additionalProperties |-> IF chan = "stdio" THEN "false" ELSE Undefined],
                  [name |-> "execute_crud",
                   properties |-> <<"operation", "table", "data", "where">>,
                   required |-> <<"operation", "table">>,
                   paramsItems |-> Undefined, paramsDefault |-> Undefined,
                   additionalProperties |-> Undefined],
                  [name |-> "get_schema", properties |-> <<"table">>,
                   required |-> <<>>,
                   paramsItems |-> Undefined, paramsDefault |-> Undefined,
                   additionalProperties |-> Undefined],
                  [name |-> "list_tables", properties |-> <<>>,
                   required |-> <<>>,
                   paramsItems |-> Undefined, paramsDefault |-> Undefined,
                   additionalProperties |-> Undefined] >>]

\* { content: [{ type: "text", text: JSON.stringify(result, null, 2) }] }
ContentResult(payload) ==
    [kind |-> "content", content |-> << [type |-> "text", text |-> payload] >>]

\* (error as Error).message || "Internal error"
OrInternalError(message) == IF message = <<>> THEN <<"Internal error">> ELSE message

\* the column listing of get_schema with a table
ColumnsQuery ==
    <<"SELECT column_name, data_type, is_nullable, column_default FROM information_schema.columns WHERE table_name = $1 AND table_schema = 'public' ORDER BY ordinal_position">>

\* the base-table listing of get_schema without a table, and of list_tables
TablesQuery ==
    <<"SELECT table_name FROM information_schema.tables WHERE table_schema = 'public' AND table_type = 'BASE TABLE' ORDER BY table_name">>

\* a switch without its default: an unknown name runs the last case
UnknownToolFallsThrough(name) == Await(RawStmt(TablesQuery, <<>>))

\* default: throw new Error(`Unknown tool: ${name}`)
UnknownTool(name) ==
    Throw(<<"Unknown tool: ", IF name = Undefined THEN "undefined" ELSE name>>)

\* the switch on the tool name inside the inner try, up to its await
ToolCall(name, args) ==
    CASE name = "query_database" ->
           IF args.t = "undefined" THEN Throw(TypeErrorMessage)
           ELSE Await(RawStmt(args.query,
                              IF args.qparams.t = "undefined" THEN <<>>
                              ELSE args.qparams.items))
      [] name = "execute_crud" ->
           IF args.t = "undefined" THEN Throw(TypeErrorMessage)
           ELSE HandleCrudOperation(args.operation, args.table, args.data, args.where)
      [] name = "get_schema" ->
           IF args.t = "undefined" THEN Throw(TypeErrorMessage)
           ELSE IF args.table # UndefinedStr /\ args.table # <<>>
           THEN Await(RawStmt(ColumnsQuery, <<args.table>>))
           ELSE Await(RawStmt(TablesQuery, <<>>))
      [] name = "list_tables" -> Await(RawStmt(TablesQuery, <<>>))
      [] OTHER -> UnknownTool(name)

\* JSON.stringify(result, (key, value) =>
\*     typeof value === "bigint" ? value.toString() : value)
BigIntToString(rows) ==
    [rows EXCEPT !.big = IF rows.big = "bigint" THEN "text" ELSE rows.big]

\* JSON.stringify throws on a BigInt
StringifyThrows(rows) == rows.big = "bigint"
BigIntMessage == <<"Do not know how to serialize a BigInt">>

\* the rest of the inner try once the awaited statement has settled:
\* the payload to answer with, or the error the inner catch reports
ToolSettle(name, reply) ==
    IF reply.t = "error"
    THEN [ok |-> FALSE, message |-> OrInternalError(reply.message), payload |-> NoReply]
    ELSE LET result == IF name = "query_database" THEN BigIntToString(reply) ELSE reply IN
         IF StringifyThrows(result)
         THEN [ok |-> FALSE, message |-> BigIntMessage, payload |-> NoReply]
         ELSE [ok |-> TRUE, message |-> <<>>, payload |-> result]

\* what a handler has done when it returns or reaches its await:
\* the responses written and the statement awaited, if any
Effect(responses, stmt) == [out |-> responses, stmt |-> stmt]

\* the outer catch of the stdin handler
StdioOuterCatch == Effect(<<SendError(JsNull, -32700, <<"Parse error">>)>>, NoStmt)

\* case "tools/call" of the stdin handler, up to its await
StdioToolsCall(chunk) ==
    IF chunk.params.t # "object" THEN StdioOuterCatch
    ELSE LET c == ToolCall(chunk.params.name, chunk.params.args) IN
         IF c.t = "throw"
         THEN Effect(<<SendError(chunk.id, -32603, OrInternalError(c.message))>>, NoStmt)
         ELSE Effect(<<>>, c.stmt)

\* a default that reports the wrong reserved code
StdioDefaultInvalidRequest(chunk) ==
    Effect(<<SendError(chunk.id, -32600, <<"Invalid Request">>)>>, NoStmt)

\* default: of the switch on message.method
StdioDefault(chunk) ==
    Effect(<<SendError(chunk.id, -32601, <<"Method not found">>)>>, NoStmt)

\* switch (message.method)
StdioRoute(chunk) ==
    CASE chunk.method = "initialize" ->
           Effect(<<SendResponse(chunk.id, InitializeResult)>>, NoStmt)
      [] chunk.method = "tools/list" ->
           Effect(<<SendResponse(chunk.id, ToolsListResult("stdio"))>>, NoStmt)
      [] chunk.method = "tools/call" -> StdioToolsCall(chunk)
      [] OTHER -> StdioDefault(chunk)

\* the handler without the return after its Invalid Request answer: it goes
\* on to route the message
StdioOnDataNoReturn(chunk) ==
    IF chunk.t \in {"malformed", "null"} THEN StdioOuterCatch
    ELSE IF chunk.jsonrpc # "2.0"
    THEN Effect(<<SendError(chunk.id, -32600, <<"Invalid Request">>)>>
                  \o StdioRoute(chunk).out, StdioRoute(chunk).stmt)
    ELSE StdioRoute(chunk)

\* the stdin data handler, up to its await: JSON.parse of null has no members
\* to read, so message.jsonrpc throws into the outer catch
StdioOnData(chunk) ==
    IF chunk.t \in {"malformed", "null"} THEN StdioOuterCatch
    ELSE IF chunk.jsonrpc # "2.0"
    THEN Effect(<<SendError(chunk.id, -32600, <<"Invalid Request">>)>>, NoStmt)
    ELSE StdioRoute(chunk)

\* the stdin data handler after its await
StdioAfterAwait(chunk, reply) ==
    LET r == ToolSettle(chunk.params.name, reply) IN
    IF r.ok THEN SendResponse(chunk.id, ContentResult(r.payload))
    ELSE SendError(chunk.id, -32603, r.message)

\* express.json(): the strict body parser accepts only an object or an array
ExpressJson(chunk) == chunk.t \in {"object", "array"}

\* the outer catch of POST /mcp
HttpOuterCatch(chunk) ==
    Effect(<<ResJson(500, SendError(chunk.id, -32603, <<"Internal error">>))>>, NoStmt)

\* case "tools/call" of POST /mcp, up to its await
HttpToolsCall(chunk) ==
    IF chunk.params.t # "object" THEN HttpOuterCatch(chunk)
    ELSE LET c == ToolCall(chunk.params.name, chunk.params.args) IN
         IF c.t = "throw"
         THEN Effect(<<ResJson(200, SendError(chunk.id, -32603,
                                              OrInternalError(c.message)))>>, NoStmt)
         ELSE Effect(<<>>, c.stmt)

\* default: of the switch on method
HttpDefault(chunk) ==
    Effect(<<ResJson(400, SendError(chunk.id, -32601, <<"Method not found">>))>>, NoStmt)

\* switch (method)
HttpRoute(chunk) ==
    CASE chunk.method = "initialize" ->
           Effect(<<ResJson(200, SendResponse(chunk.id, InitializeResult))>>, NoStmt)
      [] chunk.method = "tools/list" ->
           Effect(<<ResJson(200, SendResponse(chunk.id, ToolsListResult("http")))>>, NoStmt)
      [] chunk.method = "tools/call" -> HttpToolsCall(chunk)
      [] OTHER -> HttpDefault(chunk)

\* POST /mcp, up to its await; a body express.json() rejects goes to the
\* error-handling middleware instead
HttpOnPost(chunk) ==
    IF ~ExpressJson(chunk) THEN Effect(<<ErrorMiddleware>>, NoStmt)
    ELSE IF chunk.jsonrpc # "2.0"
    THEN Effect(<<ResJson(400, SendError(chunk.id, -32600, <<"Invalid Request">>))>>,
                NoStmt)
    ELSE HttpRoute(chunk)

\* POST /mcp after its await
HttpAfterAwait(chunk, reply) ==
    LET r == ToolSettle(chunk.params.name, reply) IN
    IF r.ok THEN ResJson(200, SendResponse(chunk.id, ContentResult(r.payload)))
    ELSE ResJson(200, SendError(chunk.id, -32603, r.message))

\* String.prototype.toUpperCase on one character
UpperChar(c) ==
    CASE c = "s" -> "S" [] c = "u" -> "U" [] c = "a" -> "A" [] c = "b" -> "B"
      [] c = "x" -> "X" [] c = "o" -> "O"
      [] OTHER -> c

\* tableName.charAt(0).toUpperCase() + tableName.slice(1).replace(/s$/, "")
ModelName(tableName) ==
    IF Len(tableName) = 0 THEN <<>>
    ELSE LET rest == Tail(tableName) IN
         <<UpperChar(tableName[1])>> \o
         (IF Len(rest) > 0 /\ rest[Len(rest)] = "s"
          THEN SubSeq(rest, 1, Len(rest) - 1) ELSE rest)

Subject == <<"S", "u", "b", "j", "e", "c", "t">>

\* !x of a string argument: undefined and "" are falsy
Falsy(str) == str = UndefinedStr \/ str = <<>>

\* res.status(400).json({ success: false, error })
Rest400(message) ==
    [members |-> {"success", "error"}, id |-> Undefined, result |-> NoValue,
     code |-> 0, message |-> message, status |-> 400]

\* res.status(500).json({ success: false, error, timestamp }) of the catch
Rest500(message) ==
    [members |-> {"success", "error", "timestamp"}, id |-> Undefined,
     result |-> NoValue, code |-> 0,
     message |-> IF message = <<>> THEN <<"Operation execution failed">> ELSE message,
     status |-> 500]

\* res.json({ success: true, data, operation, table, timestamp })
Rest200(data) ==
    [members |-> {"success", "data", "operation", "table", "timestamp"},
     id |-> Undefined, result |-> [kind |-> "data", data |-> data],
     code |-> 0, message |-> <<>>, status |-> 200]

\* case "select" of POST /api/mcp/execute
ExecuteSelect(tableName, where) ==
    IF Truthy(where)
    THEN Effect(<<>>, RawStmt(<<"SELECT * FROM ">> \o Interp(tableName) \o <<" WHERE ">>
                                \o Join(EqualityTerms(ObjectKeys(where), 0), " AND "),
                              ObjectValues(where)))
    ELSE Effect(<<>>, RawStmt(<<"SELECT * FROM ">> \o Interp(tableName), <<>>))

\* if (!data.createdAt) { columns += ', "createdAt"'; placeholders += ", NOW()" }
\* and the same for updatedAt
ExecuteInsertColumns(data) ==
    InsertColumns(data)
      \o (IF Get(data, CreatedAt) = UndefinedStr THEN <<", \"createdAt\"">> ELSE <<>>)
      \o (IF Get(data, UpdatedAt) = UndefinedStr THEN <<", \"updatedAt\"">> ELSE <<>>)

ExecuteInsertPlaceholders(data) ==
    InsertPlaceholders(data)
      \o (IF Get(data, CreatedAt) = UndefinedStr THEN <<", NOW()">> ELSE <<>>)
      \o (IF Get(data, UpdatedAt) = UndefinedStr THEN <<", NOW()">> ELSE <<>>)

\* case "insert" of POST /api/mcp/execute
ExecuteInsert(tableName, data) ==
    IF ~Truthy(data)
    THEN Effect(<<Rest400(<<"Data parameter is required for insert operation">>)>>, NoStmt)
    ELSE IF ModelName(tableName) = Subject
    THEN Effect(<<>>, TypedStmt("subject.create", NoObject,
                        Put(Put(data, CreatedAt, OrNow(Get(data, CreatedAt))),
                            UpdatedAt, OrNow(Get(data, UpdatedAt)))))
    ELSE Effect(<<>>, RawStmt(<<"INSERT INTO ">> \o Interp(tableName) \o <<" (">>
                                \o ExecuteInsertColumns(data) \o <<") VALUES (">>
                                \o ExecuteInsertPlaceholders(data) \o <<") RETURNING *">>,
                              ObjectValues(data)))

\* case "update" of POST /api/mcp/execute
ExecuteUpdate(tableName, data, where) ==
    IF ~Truthy(data) \/ ~Truthy(where)
    THEN Effect(<<Rest400(<<"Data and where parameters are required for update operation">>)>>,
                NoStmt)
    ELSE Effect(<<>>, RawStmt(<<"UPDATE ">> \o Interp(tableName) \o <<" SET ">>
                                \o Join(EqualityTerms(ObjectKeys(data), 0), ", ")
                                \o <<" WHERE ">>
                                \o Join(EqualityTerms(ObjectKeys(where),
                                                      Len(ObjectKeys(data))), " AND ")
                                \o <<" RETURNING *">>,
                              ObjectValues(data) \o ObjectValues(where)))

\* case "delete" of POST /api/mcp/execute
ExecuteDelete(tableName, where) ==
    IF ~Truthy(where)
    THEN Effect(<<Rest400(<<"Where parameter is required for delete operation">>)>>, NoStmt)
    ELSE Effect(<<>>, RawStmt(<<"DELETE FROM ">> \o Interp(tableName) \o <<" WHERE ">>
                                \o Join(EqualityTerms(ObjectKeys(where), 0), " AND ")
                                \o <<" RETURNING *">>,
                              ObjectValues(where)))

\* a body member of another JSON type than string: the number 5
NotAString == <<"<number 5>">>

\* the message of the TypeError a call of toLowerCase on a number throws
NotAFunctionMessage == <<"operation.toLowerCase is not a function">>

\* POST /api/mcp/execute, up to its await; what the switch expression throws
\* goes to the handler's catch
ApiMcpExecute(operation, table, data, where) ==
    IF Falsy(operation) \/ Falsy(table)
    THEN Effect(<<Rest400(<<"Operation and table parameters are required">>)>>, NoStmt)
    ELSE IF operation = NotAString
    THEN Effect(<<Rest500(NotAFunctionMessage)>>, NoStmt)
    ELSE LET tableName == ToLowerCase(table)
             op == ToLowerCase(operation) IN
         CASE op = Select -> ExecuteSelect(tableName, where)
           [] op = Insert -> ExecuteInsert(tableName, data)
           [] op = Update -> ExecuteUpdate(tableName, data, where)
           [] op = Delete -> ExecuteDelete(tableName, where)
           [] OTHER ->
                Effect(<<Rest400(<<"Invalid operation. Supported: select, insert, update, delete">>)>>,
                       NoStmt)

\* POST /api/mcp/execute after its await
ApiMcpExecuteAfterAwait(reply) ==
    IF reply.t = "error" THEN Rest500(reply.message)
    ELSE Rest200(BigIntToString(reply))

IdleCur == [phase |-> "idle", chan |-> "none", chunk |-> NoChunk]

\* what the database can answer to a statement: the typed client answers by
\* its method, the two catalog listings have text columns only, and rows of a
\* user table may hold a 64-bit integer
RepliesTo(stmt) ==
    DbErrors \cup
    CASE stmt.api \in {"subject.updateMany", "subject.deleteMany"} ->
           { r \in TypedReplies : r.t = "count" }
      [] stmt.api = "subject.create" -> { r \in TypedReplies : r.t = "row" }
      [] stmt.api = "$queryRawUnsafe" /\ stmt.text \in {ColumnsQuery, TablesQuery} ->
           { r \in DbReplies : r.t = "rows" /\ r.big = "none" }
      [] OTHER -> { r \in DbReplies : r.t = "rows" }

-----------------------------------------------------------------------------
(* Inputs *)

Users == <<"u", "s", "e", "r", "s">>
\* a table name that carries a second statement
BadTable == <<"u", "s", "e", "r", "s", ";", "x">>
\* the typed table's name in another letter case
UpperSubjects == <<"S", "u", "b", "j", "e", "c", "t", "s">>
Tables == {Subjects, Users, BadTable, UpperSubjects}

ColA == <<"a">>
ColB == <<"b">>
\* a column name with a space and a quote
BadCol == <<"a", " ", "'">>
Cols == {ColA, ColB, BadCol}

\* scalar values of a mapping (none of them falsy)
Vals == {<<"v1">>, <<"v2">>}

UpperUpdate == <<"U", "P", "D", "A", "T", "E">>
TitleSelect == <<"S", "e", "l", "e", "c", "t">>
Merge == <<"m", "e", "r", "g", "e">>
Operations == {Select, Insert, Update, Delete, UpperUpdate, TitleSelect, Merge}

\* the member lists of length n with distinct keys
Members(n) ==
    { kv \in [1..n -> Cols \X Vals] :
        \A i, j \in 1..n : kv[i][1] = kv[j][1] => i = j }

\* every data / where argument: absent, or an object of at most MaxCols members
Mappings == {NoObject} \cup { Obj(kv) : kv \in UNION { Members(n) : n \in 0..MaxCols } }

\* a timestamp a caller supplies
Stamp == <<"2024-01-01T00:00:00Z">>

\* data that brings its own audit columns
DatedData ==
    { Obj(<< <<ColA, <<"v1">> >>, <<CreatedAt, Stamp>> >>),
      Obj(<< <<UpdatedAt, Stamp>>, <<ColA, <<"v1">> >> >>),
      Obj(<< <<CreatedAt, Stamp>>, <<UpdatedAt, Stamp>> >>) }

\* the body members of POST /api/mcp/execute
RestOperations == Operations \cup {UndefinedStr, NotAString}
RestTables == {Subjects, Users, UpperSubjects, UndefinedStr}

\* the inputs of the session handler

Ids == {"1", "2", JsNull, Undefined}
Tags == {"2.0", "1.0", Undefined}
Methods == {"initialize", "tools/list", "tools/call", "ping", Undefined}
ToolNames == {"query_database", "execute_crud", "get_schema", "list_tables",
              "drop_database", Undefined}

CountQuery == <<"SELECT count(*) FROM users WHERE role = $1">>

QueryArgs ==
    { [NoArgs EXCEPT !.t = "object", !.query = q, !.qparams = ps] :
        q \in {UndefinedStr, <<>>, CountQuery},
        ps \in {NoArray, Arr(<<>>), Arr(<< <<"v1">> >>)} }

SchemaArgs ==
    { [NoArgs EXCEPT !.t = "object", !.table = tb] : tb \in {UndefinedStr, Users} }

CrudArgs ==
    { [NoArgs EXCEPT !.t = "object", !.operation = op, !.table = tb,
                     !.data = d, !.where = w] :
        op \in {UndefinedStr, Select, Update, Merge},
        tb \in {Subjects, Users},
        d \in {NoObject, Obj(<< <<ColA, <<"v1">> >> >>)},
        w \in {NoObject, Obj(<<>>), Obj(<< <<ColB, <<"v2">> >> >>)} }

Arguments == {NoArgs} \cup QueryArgs \cup SchemaArgs \cup CrudArgs

Params ==
    {NoParams} \cup [t : {"object"}, name : ToolNames, args : Arguments]

\* one input: text that is no JSON, or the JSON value null, a scalar, an array
\* (none of which has a member), or an object
Chunks ==
    { [NoChunk EXCEPT !.t = k] : k \in {"malformed", "null", "scalar", "array"} } \cup
    [t : {"object"}, jsonrpc : Tags, id : Ids, method : Methods, params : Params]

-----------------------------------------------------------------------------
(* handleCrudOperation called on bounded arguments *)

\* no database content in view
NoStore == [users |-> {}, subjects |-> {}, seq |-> 0, writes |-> 0,
            before |-> [users |-> {}, subjects |-> {}, seq |-> 0]]

\* no stream in use
NoStream == [sent |-> <<>>, rest |-> <<>>]

IdleCall == [phase |-> "idle", operation |-> UndefinedStr, table |-> UndefinedStr,
             data |-> NoObject, where |-> NoObject]

NoResult == [t |-> "none", big |-> "none", message |-> <<>>]


InitCrud ==
    /\ call \in [phase : {"ready"}, operation : Operations \cup {UndefinedStr},
                 table : Tables, data : Mappings \cup DatedData, where : Mappings]
    /\ callRes = NoResult
    /\ dbLog = <<>>
    /\ dbReply = NoReply
    /\ cur = IdleCur
    /\ out = <<>>
    /\ stdin = NoStream
    /\ inflight = <<>>
    /\ db = NoStore

\* the call runs to its await, or throws
CrudCall ==
    /\ call.phase = "ready"
    /\ LET c == HandleCrudOperation(call.operation, call.table, call.data, call.where) IN
         IF c.t = "throw"
         THEN /\ call' = [call EXCEPT !.phase = "returned"]
              /\ callRes' = [t |-> "rejected", big |-> "none", message |-> c.message]
              /\ dbLog' = dbLog
         ELSE /\ call' = [call EXCEPT !.phase = "awaiting"]
              /\ callRes' = callRes
              /\ dbLog' = Append(dbLog, c.stmt)
    /\ UNCHANGED <<cur, out, dbReply>>
    /\ UNCHANGED <<stdin, inflight, db>>

\* the database answers and the awaited promise settles: return await ...
CrudSettle ==
    /\ call.phase = "awaiting"
    /\ \E r \in RepliesTo(dbLog[Len(dbLog)]) :
         /\ dbReply' = r
         /\ callRes' = IF r.t = "error"
                       THEN [t |-> "rejected", big |-> "none", message |-> r.message]
                       ELSE [t |-> "fulfilled", big |-> r.big, message |-> <<>>]
    /\ call' = [call EXCEPT !.phase = "returned"]
    /\ UNCHANGED <<cur, out, dbLog>>
    /\ UNCHANGED <<stdin, inflight, db>>

NextCrud == CrudCall \/ CrudSettle

SpecCrud == InitCrud /\ [][NextCrud]_vars

-----------------------------------------------------------------------------
(* POST /api/mcp/execute called on bounded bodies *)

InitRest ==
    /\ call \in [phase : {"ready"}, operation : RestOperations, table : RestTables,
                 data : Mappings \cup DatedData, where : Mappings]
    /\ callRes = NoResult
    /\ dbLog = <<>>
    /\ dbReply = NoReply
    /\ cur = IdleCur
    /\ out = <<>>
    /\ stdin = NoStream
    /\ inflight = <<>>
    /\ db = NoStore

\* the route handler runs to its await, or answers 400
ExecutePost ==
    /\ call.phase = "ready"
    /\ LET e == ApiMcpExecute(call.operation, call.table, call.data, call.where) IN
         /\ call' = [call EXCEPT !.phase = IF e.stmt = NoStmt THEN "returned"
                                           ELSE "awaiting"]
         /\ out' = out \o e.out
         /\ dbLog' = IF e.stmt = NoStmt THEN dbLog ELSE Append(dbLog, e.stmt)
    /\ UNCHANGED <<cur, dbReply, callRes>>
    /\ UNCHANGED <<stdin, inflight, db>>

\* the database answers and the handler writes its response
ExecuteSettle ==
    /\ call.phase = "awaiting"
    /\ \E r \in RepliesTo(dbLog[Len(dbLog)]) :
         /\ dbReply' = r
         /\ out' = Append(out, ApiMcpExecuteAfterAwait(r))
    /\ call' = [call EXCEPT !.phase = "returned"]
    /\ UNCHANGED <<cur, dbLog, callRes>>
    /\ UNCHANGED <<stdin, inflight, db>>

NextRest == ExecutePost \/ ExecuteSettle

SpecRest == InitRest /\ [][NextRest]_vars

-----------------------------------------------------------------------------
(* The session handler on its two transports.  The client sends a request  *)
(* and reads the answer before it sends the next; out and dbLog hold what  *)
(* was written and issued for the request in hand.  A handler keeps        *)
(* nothing of a request once it has returned.                              *)

Init ==
    /\ cur = IdleCur
    /\ out = <<>>
    /\ dbLog = <<>>
    /\ dbReply = NoReply
    /\ call = IdleCall
    /\ callRes = NoResult
    /\ stdin = NoStream
    /\ inflight = <<>>
    /\ db = NoStore

\* a handler takes chunk on transport chan and runs to its return or its await
Handle(chan, chunk, e) ==
    /\ cur' = [phase |-> IF e.stmt = NoStmt THEN "done" ELSE "awaiting",
               chan |-> chan, chunk |-> chunk]
    /\ out' = out \o e.out
    /\ dbLog' = IF e.stmt = NoStmt THEN dbLog ELSE Append(dbLog, e.stmt)
    /\ dbReply' = dbReply
    /\ UNCHANGED <<call, callRes>>
    /\ UNCHANGED <<stdin, inflight, db>>

\* stdin.on("data", ...)
StdinData ==
    /\ cur.phase = "idle"
    /\ \E chunk \in Chunks : Handle("stdio", chunk, StdioOnData(chunk))

\* app.post("/mcp", ...) behind express.json()
PostMcp ==
    /\ cur.phase = "idle"
    /\ \E chunk \in Chunks : Handle("http", chunk, HttpOnPost(chunk))

\* a client that sends a failed statement once more before it gives up
DbAnswerRetrying ==
    /\ cur.phase = "awaiting"
    /\ dbReply' \in RepliesTo(dbLog[Len(dbLog)])
    /\ IF dbReply'.t = "error" /\ Len(dbLog) < 2
       THEN cur' = cur /\ dbLog' = Append(dbLog, dbLog[Len(dbLog)])
       ELSE cur' = [cur EXCEPT !.phase = "settled"] /\ dbLog' = dbLog
    /\ UNCHANGED <<out, call, callRes>>
    /\ UNCHANGED <<stdin, inflight, db>>

\* the database settles the awaited statement
DbAnswer ==
    /\ cur.phase = "awaiting"
    /\ dbReply' \in RepliesTo(dbLog[Len(dbLog)])
    /\ cur' = [cur EXCEPT !.phase = "settled"]
    /\ UNCHANGED <<out, dbLog, call, callRes>>
    /\ UNCHANGED <<stdin, inflight, db>>

\* the stdin handler resumes after its await
StdioResume ==
    /\ cur.phase = "settled"
    /\ cur.chan = "stdio"
    /\ out' = Append(out, StdioAfterAwait(cur.chunk, dbReply))
    /\ cur' = [cur EXCEPT !.phase = "done"]
    /\ UNCHANGED <<dbLog, dbReply, call, callRes>>
    /\ UNCHANGED <<stdin, inflight, db>>

\* the /mcp handler resumes after its await
HttpResume ==
    /\ cur.phase = "settled"
    /\ cur.chan = "http"
    /\ out' = Append(out, HttpAfterAwait(cur.chunk, dbReply))
    /\ cur' = [cur EXCEPT !.phase = "done"]
    /\ UNCHANGED <<dbLog, dbReply, call, callRes>>
    /\ UNCHANGED <<stdin, inflight, db>>

\* the handler has returned and the process waits for the next input
AwaitNext ==
    /\ cur.phase = "done"
    /\ cur' = IdleCur
    /\ out' = <<>>
    /\ dbLog' = <<>>
    /\ dbReply' = NoReply
    /\ UNCHANGED <<call, callRes>>
    /\ UNCHANGED <<stdin, inflight, db>>

Next == StdinData \/ PostMcp \/ DbAnswer \/ StdioResume \/ HttpResume \/ AwaitNext

Spec == Init /\ [][Next]_vars

-----------------------------------------------------------------------------
(* The stdio transport as a stream.  The client writes lines, one request   *)
(* each, without waiting for answers; the stream delivers them to the data  *)
(* handler in chunks of its own choosing; handlers that await the database  *)
(* are suspended side by side and resume as their statements settle.  The   *)
(* HTTP server takes the same requests as POSTs to /mcp, one body each,     *)
(* from connections that run side by side.                                  *)

\* the most lines the client writes
MaxLines == 2

\* the i-th line: a request with the id i
LinesAt(i) ==
    { [NoChunk EXCEPT !.t = "object", !.jsonrpc = "2.0", !.id = ToString(i),
                      !.method = m] : m \in {"initialize", "ping"} } \cup
    { [NoChunk EXCEPT !.t = "object", !.jsonrpc = "2.0", !.id = ToString(i),
                      !.method = "tools/call",
                      !.params = [t |-> "object", name |-> "list_tables",
                                  args |-> [NoArgs EXCEPT !.t = "object"]]],
      [NoChunk EXCEPT !.t = "object", !.jsonrpc = "2.0", !.id = ToString(i),
                      !.method = "tools/call",
                      !.params = [t |-> "object", name |-> "execute_crud",
                                  args |-> [NoArgs EXCEPT !.t = "object",
                                                          !.operation = Select,
                                                          !.table = Users]]] }

\* what the client writes: one to MaxLines lines
Written ==
    UNION { { sent \in [1..n -> UNION { LinesAt(i) : i \in 1..n }] :
                \A i \in 1..n : sent[i] \in LinesAt(i) } : n \in 1..MaxLines }

\* a whole line of the stream, and the rest of a line whose head has arrived
Line(req) == [kind |-> "line", req |-> req]
LineTail(req) == [kind |-> "tail", req |-> req]

InitStream ==
    /\ \E sent \in Written :
         stdin = [sent |-> sent, rest |-> [i \in 1..Len(sent) |-> Line(sent[i])]]
    /\ inflight = <<>>
    /\ out = <<>>
    /\ dbLog = <<>>
    /\ dbReply = NoReply
    /\ cur \in { [IdleCur EXCEPT !.chan = c] : c \in {"stdio", "http"} }
    /\ call = IdleCall
    /\ callRes = NoResult
    /\ db = NoStore

\* a handler that answers anything but initialize with an error until an
\* initialize has been answered
SessionHandleAfterInitialize(chan, chunk, before) ==
    LET e == IF chan = "stdio" THEN StdioOnData(chunk) ELSE HttpOnPost(chunk) IN
    IF /\ chunk.t = "object"
       /\ chunk.method # "initialize"
       /\ \A i \in 1..Len(before) : before[i].result # InitializeResult
    THEN Effect(<<SendError(chunk.id, -32600, <<"Server not initialized">>)>>, NoStmt)
    ELSE e

\* the handler of the transport, called when the responses before have
\* already been written: it closes over the streams and the client only and
\* reads nothing of what went before
SessionHandle(chan, chunk, before) ==
    IF chan = "stdio" THEN StdioOnData(chunk) ELSE HttpOnPost(chunk)

\* the handler's continuation after its await
SessionAfterAwait(chan, chunk, reply) ==
    IF chan = "stdio" THEN StdioAfterAwait(chunk, reply) ELSE HttpAfterAwait(chunk, reply)

\* JSON.parse(data.toString().trim()) of a chunk that holds the first n
\* pieces of the stream, the last of them cut short or not: the text is one
\* JSON value only when the chunk is exactly one whole line
ParseChunk(pieces, cut) ==
    IF Len(pieces) = 1 /\ ~cut /\ pieces[1].kind = "line"
    THEN pieces[1].req
    ELSE [NoChunk EXCEPT !.t = "malformed"]

\* stdin.on("data", ...) on the stream: a chunk arrives and the handler runs
\* to its return or its await
StdinChunk ==
    \E n \in 1..Len(stdin.rest), cut \in BOOLEAN :
        /\ cur.chan = "stdio"
        /\ cut => stdin.rest[n].kind = "line"
        /\ LET chunk == ParseChunk(SubSeq(stdin.rest, 1, n), cut)
               e == SessionHandle("stdio", chunk, out)
               after == SubSeq(stdin.rest, n + 1, Len(stdin.rest)) IN
             /\ stdin' = [stdin EXCEPT !.rest =
                             IF cut THEN <<LineTail(stdin.rest[n].req)>> \o after
                             ELSE after]
             /\ out' = out \o e.out
             /\ IF e.stmt = NoStmt
                THEN UNCHANGED <<inflight, dbLog>>
                ELSE /\ inflight' = Append(inflight, [chunk |-> chunk, stmt |-> e.stmt])
                     /\ dbLog' = Append(dbLog, e.stmt)
        /\ UNCHANGED <<cur, dbReply, call, callRes, db>>

\* app.post("/mcp", ...) under load: the POST of any request that has yet to
\* arrive comes in, its body whole, and the handler runs to its return or
\* its await
PostMcpArrives ==
    \E n \in 1..Len(stdin.rest) :
        /\ cur.chan = "http"
        /\ LET chunk == stdin.rest[n].req
               e == SessionHandle("http", chunk, out) IN
             /\ stdin' = [stdin EXCEPT !.rest = SubSeq(stdin.rest, 1, n - 1) \o
                                                SubSeq(stdin.rest, n + 1, Len(stdin.rest))]
             /\ out' = out \o e.out
             /\ IF e.stmt = NoStmt
                THEN UNCHANGED <<inflight, dbLog>>
                ELSE /\ inflight' = Append(inflight, [chunk |-> chunk, stmt |-> e.stmt])
                     /\ dbLog' = Append(dbLog, e.stmt)
        /\ UNCHANGED <<cur, dbReply, call, callRes, db>>

\* the statement of one suspended handler settles and the handler resumes:
\* it writes its response and returns
StreamResume ==
    \E i \in 1..Len(inflight) :
        \E r \in RepliesTo(inflight[i].stmt) :
            /\ dbReply' = r
            /\ out' = Append(out, SessionAfterAwait(cur.chan, inflight[i].chunk, r))
            /\ inflight' = SubSeq(inflight, 1, i - 1)
                              \o SubSeq(inflight, i + 1, Len(inflight))
            /\ UNCHANGED <<cur, dbLog, stdin, call, callRes, db>>

NextStream == StdinChunk \/ PostMcpArrives \/ StreamResume

SpecStream == InitStream /\ [][NextStream]_vars

-----------------------------------------------------------------------------
(* execute_crud select against a database with content.  The database is a  *)
(* PostgreSQL server (the $n placeholders, information_schema, schema        *)
(* public): it has the one-column tables users and subjects and a sequence   *)
(* s.  The same select is called twice; another client may write in          *)
(* between.                                                                  *)

\* what can stand where a table name is expected and is no table name: a
\* call of the sequence function nextval
NextvalCall == <<"n", "e", "x", "t", "v", "a", "l", "(", "'", "s", "'", ")">>

\* the rows of a table that satisfy the where of a typed call, or the one
\* bound parameter of a generic one
Matching(rows, where) ==
    IF ~Truthy(where) \/ Len(where.kv) = 0 THEN rows
    ELSE { r \in rows : r = where.kv[1][2] }

\* the database executes a statement: the rows it answers with, or an error,
\* and its content afterwards
Exec(stmt, store) ==
    CASE stmt.api = "subject.findMany" ->
           [reply |-> [t |-> "rows", rows |-> Matching(store.subjects, stmt.where)],
            store |-> store]
      [] stmt.api = "$queryRawUnsafe"
           /\ stmt.text = <<"SELECT * FROM ">> \o Users \o <<" ">> ->
           [reply |-> [t |-> "rows", rows |-> store.users], store |-> store]
      [] stmt.api = "$queryRawUnsafe"
           /\ stmt.text = <<"SELECT * FROM ">> \o Users \o <<" ", "WHERE ">>
                             \o ColA \o <<" = $", "1">> ->
           [reply |-> [t |-> "rows", rows |-> { r \in store.users : r = stmt.params[1] }],
            store |-> store]
      [] stmt.api = "$queryRawUnsafe"
           /\ stmt.text = <<"SELECT * FROM ">> \o NextvalCall \o <<" ">> ->
           [reply |-> [t |-> "rows", rows |-> { <<ToString(store.seq + 1)>> }],
            store |-> [store EXCEPT !.seq = store.seq + 1]]
      [] OTHER ->
           [reply |-> [t |-> "error", rows |-> {}], store |-> store]

InitStore ==
    /\ \E u \in SUBSET Vals, sj \in SUBSET Vals :
         db = [users |-> u, subjects |-> sj, seq |-> 0, writes |-> 0,
               before |-> [users |-> u, subjects |-> sj, seq |-> 0]]
    /\ call \in [phase : {"ready"}, operation : {Select},
                 table : {Subjects, Users, NextvalCall}, data : {NoObject},
                 where : {NoObject, Obj(<<>>)} \cup
                         { Obj(<< <<ColA, v>> >>) : v \in Vals }]
    /\ callRes = NoResult
    /\ dbLog = <<>>
    /\ dbReply = NoReply
    /\ cur = IdleCur
    /\ out = <<>>
    /\ stdin = NoStream
    /\ inflight = <<>>

\* handleCrudOperation is called with the arguments, for the first or the
\* second time; its statement is executed and its result returned
SelectCall ==
    /\ call.phase \in {"ready", "once"}
    /\ LET c == HandleCrudOperation(call.operation, call.table, call.data, call.where)
           x == Exec(c.stmt, db) IN
         /\ c.t = "await"
         /\ dbLog' = Append(dbLog, c.stmt)
         /\ out' = Append(out, x.reply)
         /\ db' = x.store
    /\ call' = [call EXCEPT !.phase = IF call.phase = "ready" THEN "once" ELSE "twice"]
    /\ UNCHANGED <<cur, dbReply, callRes, stdin, inflight>>

\* another client of the database inserts a row into users or subjects
OtherWrite ==
    /\ db.writes = 0
    /\ \E v \in Vals :
         \/ db' = [db EXCEPT !.users = db.users \cup {v}, !.writes = 1]
         \/ db' = [db EXCEPT !.subjects = db.subjects \cup {v}, !.writes = 1]
    /\ UNCHANGED <<cur, out, dbLog, dbReply, call, callRes, stdin, inflight>>

NextStore == SelectCall \/ OtherWrite

SpecStore == InitStore /\ [][NextStore]_vars

-----------------------------------------------------------------------------
(* Claims about execute_crud, checked on handleCrudOperation (SpecCrud) *)

\* a mapping that is absent or has no member
IsEmpty(m) == ~Truthy(m) \/ Len(m.kv) = 0

\* the call has been made with this operation, whatever its letter case
Called(op) == call.phase # "idle" /\ ToLowerCase(call.operation) = op

\* the call was rejected without a statement having been issued
RejectedUnissued ==
    /\ dbLog = <<>>
    /\ call.phase = "returned" => callRes.t = "rejected"

\* C1: execute_crud update with an empty or absent where fails
\* (MissingPrecondition) for every table and every non-empty data, before any
\* statement reaches the database.
C1_UpdateWithoutWhereFails ==
    (Called(Update) /\ ~IsEmpty(call.data) /\ IsEmpty(call.where)) => RejectedUnissued

\* C2: execute_crud delete with an empty or absent where always fails
\* (MissingPrecondition), for the typed and the generic tables, and no delete
\* statement reaches the database.
C2_DeleteWithoutWhereFails ==
    (Called(Delete) /\ IsEmpty(call.where)) => RejectedUnissued

Letters ==
    {"a", "b", "c", "d", "e", "f", "g", "h", "i", "j", "k", "l", "m",
     "n", "o", "p", "q", "r", "s", "t", "u", "v", "w", "x", "y", "z",
     "A", "B", "C", "D", "E", "F", "G", "H", "I", "J", "K", "L", "M",
     "N", "O", "P", "Q", "R", "S", "T", "U", "V", "W", "X", "Y", "Z"}
Digits == {"0", "1", "2", "3", "4", "5", "6", "7", "8", "9"}

\* the identifier syntax: letters, digits, underscore, not starting with a digit
IsIdentifier(name) ==
    /\ Len(name) > 0
    /\ name[1] \in Letters \cup {"_"}
    /\ \A i \in 1..Len(name) : name[i] \in Letters \cup Digits \cup {"_"}

\* text holds name as a run of consecutive tokens
Contains(text, name) ==
    \E i \in 1..(Len(text) - Len(name) + 1) : SubSeq(text, i, i + Len(name) - 1) = name

\* the table and column names of the call
CallNames ==
    {call.table} \cup { call.data.kv[i][1] : i \in 1..Len(call.data.kv) }
                 \cup { call.where.kv[i][1] : i \in 1..Len(call.where.kv) }

\* C3: a table or column name of an execute_crud request that is not an
\* identifier (it has a space, a semicolon or a quote) makes the call fail
\* (InvalidIdentifier), and no statement whose text holds that name is sent.
C3_NamesValidatedBeforeInterpolation ==
    \A n \in CallNames :
        (call.phase # "idle" /\ ~IsIdentifier(n)) =>
            /\ \A i \in 1..Len(dbLog) : ~Contains(dbLog[i].text, n)
            /\ call.phase = "returned" => callRes.t = "rejected"

\* the mappings with the keys of m, in m's order, under every choice of values
Revalued(m) ==
    IF ~Truthy(m) THEN {m}
    ELSE { Obj([i \in 1..Len(m.kv) |-> <<m.kv[i][1], f[i]>>]) :
             f \in [1..Len(m.kv) -> Vals] }

\* C4: the values of data and where are only ever passed as bound
\* parameters: no value occurs in the SQL text, and a request with the same
\* operation, table and column names but other values issues the same text
\* through the same client call (stated of the moment the statement is issued;
\* dbLog does not change afterwards).
C4_ValuesOnlyBound ==
    \A i \in 1..Len(dbLog) :
      call.phase = "awaiting" =>
        /\ \A v \in Vals : ~Contains(dbLog[i].text, v)
        /\ \A d \in Revalued(call.data), w \in Revalued(call.where) :
             LET c == HandleCrudOperation(call.operation, call.table, d, w) IN
               /\ c.t = "await"
               /\ c.stmt.api = dbLog[i].api
               /\ c.stmt.text = dbLog[i].text

\* a generic select with a two-column where has been issued with the values
\* bound as $1 and $2
C4_Witness ==
    /\ call.phase = "returned"
    /\ callRes.t = "fulfilled"
    /\ ToLowerCase(call.operation) = Select
    /\ call.table = Users
    /\ Len(dbLog) = 1
    /\ dbLog[1].api = "$queryRawUnsafe"
    /\ dbLog[1].params = << <<"v1">>, <<"v2">> >>
    /\ Len(call.where.kv) = 2

-----------------------------------------------------------------------------
(* Claims about the session handler, checked on both transports (Spec) *)

\* the input in hand got through the transport's parser: JSON.parse on stdio,
\* the strict express.json() on HTTP
Parsed ==
    /\ cur.phase # "idle"
    /\ IF cur.chan = "stdio" THEN cur.chunk.t \in {"null", "scalar", "array", "object"}
       ELSE cur.chunk.t \in {"array", "object"}

\* the input in hand is an object with the protocol tag "2.0"
Tagged == cur.phase # "idle" /\ cur.chunk.t = "object" /\ cur.chunk.jsonrpc = "2.0"

\* the handler has answered with exactly one error response of this code
\* and has returned
AnsweredError(code) ==
    /\ cur.phase = "done"
    /\ Len(out) = 1
    /\ out[1].code = code
    /\ "error" \in out[1].members
    /\ "result" \notin out[1].members

\* C5: for every request handed to the session handler exactly one response
\* is emitted (none before the handler is through, one once it is), and each
\* response carries exactly one of result and error.
C5_ExactlyOneResponse ==
    /\ cur.phase \in {"idle", "awaiting", "settled"} => out = <<>>
    /\ cur.phase = "done" => Len(out) = 1
    /\ \A i \in 1..Len(out) :
         ("result" \in out[i].members) # ("error" \in out[i].members)

\* an execute_crud on stdio whose rows hold a 64-bit integer has been answered,
\* with the one error response the failed serialisation leads to
C5_Witness ==
    /\ cur.phase = "done"
    /\ cur.chan = "stdio"
    /\ cur.chunk.params.name = "execute_crud"
    /\ dbReply.t = "rows"
    /\ dbReply.big = "bigint"
    /\ Len(out) = 1
    /\ "error" \in out[1].members

\* C6: malformed JSON is answered with error code -32700 and id null, and a
\* request that parsed is never answered with -32700 (stated of the parsed
\* requests that are objects).
C6_ParseErrorIffMalformed ==
    cur.phase = "done" =>
        /\ cur.chunk.t = "malformed" =>
             /\ Len(out) = 1
             /\ out[1].code = -32700
             /\ "id" \in out[1].members
             /\ out[1].id = JsNull
        /\ cur.chunk.t = "object" => \A i \in 1..Len(out) : out[i].code # -32700

\* C7: a parsed request whose protocol tag is not "2.0" is answered with
\* error code -32600 and is never routed: no statement is issued, whatever
\* its method and params.
C7_BadTagInvalidRequest ==
    (Parsed /\ ~Tagged) => (dbLog = <<>> /\ AnsweredError(-32600))

\* C8: a parsed request with the tag "2.0" and a method other than
\* initialize, tools/list and tools/call is answered with error code -32601
\* and issues no statement.
C8_UnknownMethodNotFound ==
    (Tagged /\ cur.chunk.method \notin {"initialize", "tools/list", "tools/call"})
        => (dbLog = <<>> /\ AnsweredError(-32601))

\* a ping on stdio has been answered Method not found
C8_Witness ==
    /\ Tagged
    /\ cur.chan = "stdio"
    /\ cur.chunk.method = "ping"
    /\ AnsweredError(-32601)
    /\ out[1].message = <<"Method not found">>

\* the tool name as a template literal prints it
NameText(name) == IF name = Undefined THEN "undefined" ELSE name

\* C9: a tools/call whose params.name is none of query_database,
\* execute_crud, get_schema, list_tables fails with error code -32603 and the
\* message 'Unknown tool: <name>', and no statement is issued.
C9_UnknownToolInternalError ==
    (/\ Tagged
     /\ cur.chunk.method = "tools/call"
     /\ cur.chunk.params.t = "object"
     /\ cur.chunk.params.name \notin
          {"query_database", "execute_crud", "get_schema", "list_tables"})
        => /\ dbLog = <<>>
           /\ AnsweredError(-32603)
           /\ out[1].message = <<"Unknown tool: ", NameText(cur.chunk.params.name)>>

\* a call of the tool drop_database over HTTP has been answered Unknown tool
C9_Witness ==
    /\ Tagged
    /\ cur.chan = "http"
    /\ cur.chunk.method = "tools/call"
    /\ cur.chunk.params.name = "drop_database"
    /\ cur.chunk.params.args.t = "object"
    /\ AnsweredError(-32603)
    /\ out[1].message = <<"Unknown tool: ", "drop_database">>

\* C10: every response to a request that parsed carries that request's id,
\* echoed verbatim, for results and for every error, a tools/call without
\* params included (stated of the requests that are objects, the ones that
\* can have an id).
C10_IdEchoed ==
    (Parsed /\ cur.chunk.t = "object") =>
        \A i \in 1..Len(out) :
            /\ out[i].id = cur.chunk.id
            /\ ("id" \in out[i].members) = (cur.chunk.id # Undefined)

\* the codes of the reserved ranges the error object uses
ReservedCodes == {-32700, -32600, -32601, -32603}

\* a JSON-RPC error response: the tag, an error object with a reserved code
\* and a message, and no result
IsJsonRpcError(r) ==
    /\ {"jsonrpc", "error"} \subseteq r.members
    /\ r.members \subseteq {"jsonrpc", "error", "id"}
    /\ r.code \in ReservedCodes
    /\ r.message # <<>>

\* the request in hand is through and was not answered with a result
Failed ==
    /\ cur.phase = "done"
    /\ \A i \in 1..Len(out) : "result" \notin out[i].members

\* C11: every failure while a request is handled (bad envelope, tool error,
\* database error, serialization error) ends in one JSON-RPC error response
\* written by the handler, on either transport; the handler then returns and
\* the process takes the next request.
C11_FailuresBecomeJsonRpcErrors ==
    Failed => (Len(out) = 1 /\ IsJsonRpcError(out[1]))

\* the rows the database answered with hold a 64-bit integer, which the
\* driver hands over as a BigInt
AnsweredWithBigInt ==
    /\ cur.phase = "done"
    /\ dbLog # <<>>
    /\ dbReply.t \in {"rows", "row"}
    /\ dbReply.big = "bigint"

\* C12: for the result of every tool call (query_database, execute_crud,
\* get_schema, list_tables) a 64-bit integer in the rows is emitted as
\* decimal-digit text in the payload of a result response, not as an error.
C12_BigIntAsText ==
    AnsweredWithBigInt =>
        /\ Len(out) = 1
        /\ "result" \in out[1].members
        /\ out[1].result.kind = "content"
        /\ out[1].result.content[1].text.big = "text"

-----------------------------------------------------------------------------
(* Claims about insert, checked on POST /api/mcp/execute (SpecRest) and on   *)
(* handleCrudOperation (SpecCrud)                                            *)

\* an insert with at least one column in data has issued its statement
InsertIssued ==
    /\ call.phase \in {"awaiting", "returned"}
    /\ ToLowerCase(call.operation) = Insert
    /\ ~IsEmpty(call.data)
    /\ Len(dbLog) = 1

\* the members of the mapping with this key
Having(m, k) == { i \in 1..Len(m.kv) : m.kv[i][1] = k }

\* the typed create carries data's members unchanged, and createdAt and
\* updatedAt with the current time where data has none
DefaultsSupplied(stmt, data) ==
    /\ stmt.api = "subject.create"
    /\ \A i \in 1..Len(data.kv) : Get(stmt.data, data.kv[i][1]) = data.kv[i][2]
    /\ \A k \in {CreatedAt, UpdatedAt} :
         /\ Having(stmt.data, k) # {}
         /\ Having(data, k) = {} => Get(stmt.data, k) = Now
    /\ \A i \in 1..Len(stmt.data.kv) :
         stmt.data.kv[i][1] \in {CreatedAt, UpdatedAt} \/ Having(data, stmt.data.kv[i][1]) # {}

\* the statement is INSERT INTO table (c1, ..., cn) VALUES ($1, ..., $n)
\* RETURNING * over exactly the columns of data, in data's order
ColumnsVerbatim(stmt, table, data) ==
    /\ stmt.api = "$queryRawUnsafe"
    /\ stmt.text = <<"INSERT INTO ">> \o table \o <<" (">>
                     \o Join([i \in 1..Len(data.kv) |-> data.kv[i][1]], ", ")
                     \o <<") VALUES (">>
                     \o Join([i \in 1..Len(data.kv) |-> <<"$", ToString(i)>>], ", ")
                     \o <<") RETURNING *">>
    /\ stmt.params = [i \in 1..Len(data.kv) |-> data.kv[i][2]]

\* C13: an insert on the typed fast-path table subjects supplies createdAt
\* and updatedAt when data has none and keeps the caller's values when it has;
\* an insert on any other table uses exactly the columns of data, in
\* insertion order, with no default added (stated of table names in lower
\* case).
C13_InsertDefaultsTypedOnly ==
    (InsertIssued /\ call.table = ToLowerCase(call.table)) =>
        IF call.table = Subjects
        THEN DefaultsSupplied(dbLog[1], call.data)
        ELSE ColumnsVerbatim(dbLog[1], call.table, call.data)

\* C14: execute_crud insert with an empty or absent data is rejected with an
\* error and no INSERT statement reaches the database, for the typed and the
\* generic tables alike.
C14_InsertWithoutDataRejected ==
    (Called(Insert) /\ IsEmpty(call.data)) => RejectedUnissued

\* C15: execute_crud update with an empty data (no column to set) fails
\* (InvalidArgument) and nothing is sent to the database (stated of updates
\* that do have a where).
C15_UpdateWithoutColumnsRejected ==
    (/\ Called(Update)
     /\ Truthy(call.data) /\ Len(call.data.kv) = 0
     /\ ~IsEmpty(call.where)) => RejectedUnissued

\* the operation of the call is none of the four, whatever its letter case
\* (an absent operation included)
UnknownOperationCalled ==
    /\ call.phase # "idle"
    /\ ToLowerCase(call.operation) \notin {Select, Insert, Update, Delete}

\* C16: execute_crud with an operation other than select, insert, update or
\* delete fails before any statement is built or issued, for every table,
\* the typed one included; an operation that was given is reported as
\* 'Unknown operation: <operation>'.
C16_UnknownOperationFails ==
    UnknownOperationCalled =>
        /\ call.phase \in {"ready", "returned"}
        /\ dbLog = <<>>
        /\ call.phase = "returned" =>
              /\ callRes.t = "rejected"
              /\ call.operation # UndefinedStr =>
                    callRes.message = <<"Unknown operation: ">> \o call.operation

\* the operation merge on the typed table subjects has been rejected
C16_Witness ==
    /\ call.phase = "returned"
    /\ call.operation = Merge
    /\ call.table = Subjects
    /\ ~IsEmpty(call.data)
    /\ ~IsEmpty(call.where)
    /\ dbLog = <<>>
    /\ callRes.t = "rejected"
    /\ callRes.message = <<"Unknown operation: ", "m", "e", "r", "g", "e">>

\* C18: execute_crud update returns the rows the statement affected
\* (RETURNING *) for every table, the typed one included: a fulfilled update
\* resolves with a sequence of rows (stated of updates with data and where).
C18_UpdateReturnsRows ==
    (/\ Called(Update)
     /\ ~IsEmpty(call.data) /\ ~IsEmpty(call.where)
     /\ call.phase = "returned"
     /\ callRes.t = "fulfilled") => dbReply.t = "rows"

-----------------------------------------------------------------------------
(* Claims about the tools, checked on both transports (Spec) *)

\* the request in hand is a tools/call of this tool with an arguments object
CallOf(name) ==
    /\ Tagged
    /\ cur.chunk.method = "tools/call"
    /\ cur.chunk.params.t = "object"
    /\ cur.chunk.params.name = name
    /\ cur.chunk.params.args.t = "object"

\* C17: query_database rejects an empty query without sending anything to
\* the database; a non-empty query is passed with its params in their order
\* (none when params is omitted) as the one statement of the call (stated of
\* a query that is the empty text or a non-empty text).
C17_QueryCheckedThenVerbatim ==
    CallOf("query_database") =>
        LET args == cur.chunk.params.args IN
        /\ args.query = <<>> =>
              /\ dbLog = <<>>
              /\ cur.phase = "done"
              /\ Len(out) = 1
              /\ "error" \in out[1].members
        /\ args.query \notin {<<>>, UndefinedStr} =>
              /\ Len(dbLog) = 1
              /\ dbLog[1].api = "$queryRawUnsafe"
              /\ dbLog[1].text = args.query
              /\ dbLog[1].params = args.qparams.items

\* what the handler of the other transport writes for the same input against
\* the same database answer
OtherTransportOut(chan, chunk, reply) ==
    LET e == IF chan = "stdio" THEN HttpOnPost(chunk) ELSE StdioOnData(chunk) IN
    IF e.stmt = NoStmt THEN e.out
    ELSE << IF chan = "stdio" THEN HttpAfterAwait(chunk, reply)
            ELSE StdioAfterAwait(chunk, reply) >>

\* the statement the handler of the other transport issues for the same input
OtherTransportStmt(chan, chunk) ==
    IF chan = "stdio" THEN HttpOnPost(chunk).stmt ELSE StdioOnData(chunk).stmt

\* the same JSON-RPC object: the same members, id, result, error code and
\* message (the HTTP status is not part of the object)
SameObject(a, b) ==
    /\ a.members = b.members
    /\ a.id = b.id
    /\ a.result = b.result
    /\ a.code = b.code
    /\ a.message = b.message

\* C19: the handler is transport-agnostic: for the same request and the same
\* database answer the stdio transport and POST /mcp issue the same statement
\* and write the same JSON-RPC response object (stated of the requests that
\* are objects with the tag "2.0").
C19_TransportsAgree ==
    (Tagged /\ cur.phase = "done") =>
        LET other == OtherTransportOut(cur.chan, cur.chunk, dbReply) IN
        /\ OtherTransportStmt(cur.chan, cur.chunk) =
               (IF dbLog = <<>> THEN NoStmt ELSE dbLog[1])
        /\ Len(other) = Len(out)
        /\ \A i \in 1..Len(out) : SameObject(out[i], other[i])

-----------------------------------------------------------------------------
(* Claims about the stdio stream (SpecStream) *)

\* every line has arrived and every handler has returned
StreamDrained == stdin.sent # <<>> /\ stdin.rest = <<>> /\ inflight = <<>>

\* C20: on the stdio stream each JSON object line is one request: each line
\* gets its own response with its own id, whether the lines arrive one per
\* chunk, several in one chunk, or one line split across chunks.
C20_EachLineAnswered ==
    StreamDrained =>
        /\ Len(out) = Len(stdin.sent)
        /\ \A i \in 1..Len(stdin.sent) :
             Cardinality({ j \in 1..Len(out) : out[j].id = stdin.sent[i].id }) = 1

\* the responses the handler of the transport gives to this request when it
\* is the only one the process ever receives, under every answer of the
\* database
AnsweredAlone(chan, req) ==
    LET e == IF chan = "stdio" THEN StdioOnData(req) ELSE HttpOnPost(req) IN
    IF e.stmt = NoStmt THEN { e.out[i] : i \in 1..Len(e.out) }
    ELSE { IF chan = "stdio" THEN StdioAfterAwait(req, r) ELSE HttpAfterAwait(req, r) :
             r \in RepliesTo(e.stmt) }

\* the statement that request issues when it is the only one
IssuedAlone(chan, req) ==
    IF chan = "stdio" THEN StdioOnData(req).stmt ELSE HttpOnPost(req).stmt

C22_NoRetry ==
    /\ Len(dbLog) <= 1
    /\ (cur.phase \in {"settled", "done"} /\ dbReply.t = "error") =>
          /\ Len(dbLog) = 1
          /\ cur.phase = "done" =>
                /\ AnsweredError(-32603)
                /\ out[1].message = OrInternalError(dbReply.message)

\* an execute_crud on stdio whose statement the database rejected has been
\* answered with the database's error, after the one statement
C22_Witness ==
    /\ cur.phase = "done"
    /\ cur.chan = "stdio"
    /\ cur.chunk.params.name = "execute_crud"
    /\ dbReply.t = "error"
    /\ dbReply.message = <<"db error">>
    /\ Len(dbLog) = 1
    /\ AnsweredError(-32603)
    /\ out[1].message = <<"db error">>

\* the request in hand is a tools/call of this tool that names no table:
\* arguments is absent, or has no table, or an empty one
CallWithoutTable(name) ==
    /\ Tagged
    /\ cur.chunk.method = "tools/call"
    /\ cur.chunk.params.t = "object"
    /\ cur.chunk.params.name = name
    /\ cur.chunk.params.args.t = "object" => Falsy(cur.chunk.params.args.table)

\* the same request to the other of the two tools
Twin(chunk) ==
    [chunk EXCEPT !.params.name =
        IF chunk.params.name = "list_tables" THEN "get_schema" ELSE "list_tables"]

\* what the transport's handler does with a request, up to its await
Handled(chan, chunk) == IF chan = "stdio" THEN StdioOnData(chunk) ELSE HttpOnPost(chunk)

\* C23: list_tables is equivalent to get_schema with no table filter: both
\* issue the same listing of the base tables ordered by table name and give
\* the same response for the same database answer; get_schema with a table
\* issues the listing of that table's columns ordered by ordinal position.
C23_ListTablesIsSchemaWithoutTable ==
    /\ (CallWithoutTable("list_tables") \/ CallWithoutTable("get_schema")) =>
          LET twin == Handled(cur.chan, Twin(cur.chunk)) IN
          /\ dbLog = <<RawStmt(TablesQuery, <<>>)>>
          /\ twin.stmt = dbLog[1]
          /\ cur.phase = "done" =>
                out = <<SessionAfterAwait(cur.chan, Twin(cur.chunk), dbReply)>>
    /\ (CallOf("get_schema") /\ ~Falsy(cur.chunk.params.args.table)) =>
          dbLog = <<RawStmt(ColumnsQuery, <<cur.chunk.params.args.table>>)>>

-----------------------------------------------------------------------------
(* Claims about placeholders and the WHERE fragment (SpecCrud) *)

\* the tokens that stand between the terms of a statement
Glue == {", ", " AND ", "WHERE ", " WHERE ", " SET "}

\* the positions of the placeholders of a statement text, and the k-th of them
PlaceholdersOf(text) == { p \in 1..Len(text) : text[p] = " = $" }
NthPlaceholder(text, k) ==
    CHOOSE p \in PlaceholdersOf(text) :
        Cardinality({ q \in PlaceholdersOf(text) : q <= p }) = k

\* the column a placeholder is written next to: the text between the last
\* glue token before it and the placeholder
ColumnAt(text, p) ==
    LET g == CHOOSE j \in 1..(p - 1) :
                 /\ text[j] \in Glue
                 /\ \A l \in (j + 1)..(p - 1) : text[l] \notin Glue
    IN SubSeq(text, g + 1, p - 1)

\* where the WHERE keyword stands (past the end when there is none)
WhereAt(text) ==
    IF \E j \in 1..Len(text) : text[j] \in {"WHERE ", " WHERE "}
    THEN CHOOSE j \in 1..Len(text) : text[j] \in {"WHERE ", " WHERE "}
    ELSE Len(text) + 1

\* the members of a where argument (none when it is absent)
Constraints(where) == IF Truthy(where) THEN where.kv ELSE <<>>

\* a generic statement of this operation has just been issued
GenericIssued(op) ==
    /\ call.phase = "awaiting"
    /\ ToLowerCase(call.operation) = op
    /\ Len(dbLog) = 1
    /\ dbLog[1].api = "$queryRawUnsafe"

\* C26: in a generic execute_crud update statement the placeholder numbering
\* is contiguous from 1: the SET columns take $1..$m in data's insertion
\* order, the WHERE columns take $m+1..$m+n in where's insertion order, and
\* the bound parameters are data's values followed by where's values, so the
\* i-th placeholder binds the value of the column it is written next to
\* (stated of the moment the statement is issued; dbLog does not change
\* afterwards).
C26_UpdatePlaceholdersContiguous ==
    GenericIssued(Update) =>
        LET text == dbLog[1].text
            members == call.data.kv \o Constraints(call.where)
            m == Len(call.data.kv)
        IN /\ Cardinality(PlaceholdersOf(text)) = Len(members)
           /\ Len(dbLog[1].params) = Len(members)
           /\ \A k \in 1..Len(members) :
                 LET p == NthPlaceholder(text, k) IN
                 /\ ColumnAt(text, p) = members[k][1]
                 /\ text[p + 1] = ToString(k)
                 /\ dbLog[1].params[k] = members[k][2]
                 /\ (k <= m) <=> (p < WhereAt(text))

\* a generic update of two columns under two constraints has been issued
\* with four bound values
C26_Witness ==
    /\ GenericIssued(Update)
    /\ call.table = Users
    /\ Len(call.data.kv) = 2
    /\ Truthy(call.where) /\ Len(call.where.kv) = 2
    /\ Len(dbLog[1].params) = 4
    /\ call.data.kv[1][2] # call.where.kv[1][2]

\* the token that stands right before the column of a placeholder
GlueBefore(text, p) == text[p - Len(ColumnAt(text, p)) - 1]

\* C27: a where of n entries used in a generic select or delete gives a
\* WHERE fragment of exactly n equality terms joined by AND, with the
\* placeholder indices 1..n in the where's insertion order, and the bound
\* values are the where's values in the same order (stated of the moment the
\* statement is issued).
C27_WhereTermsInOrder ==
    (GenericIssued(Select) \/ GenericIssued(Delete)) =>
        LET text == dbLog[1].text
            members == Constraints(call.where)
            n == Len(members)
        IN /\ Cardinality(PlaceholdersOf(text)) = n
           /\ Cardinality({ j \in 1..Len(text) : text[j] = " AND " }) =
                 IF n = 0 THEN 0 ELSE n - 1
           /\ dbLog[1].params = [k \in 1..n |-> members[k][2]]
           /\ \A k \in 1..n :
                 LET p == NthPlaceholder(text, k) IN
                 /\ ColumnAt(text, p) = members[k][1]
                 /\ text[p + 1] = ToString(k)
                 /\ WhereAt(text) < p
                 /\ GlueBefore(text, p) =
                       IF k = 1 THEN text[WhereAt(text)] ELSE " AND "

\* a generic delete under two constraints has been issued with the two
\* values bound
C27_Witness ==
    /\ GenericIssued(Delete)
    /\ call.table = Users
    /\ Truthy(call.where) /\ Len(call.where.kv) = 2
    /\ dbLog[1].params = << call.where.kv[1][2], call.where.kv[2][2] >>
    /\ call.where.kv[1][2] # call.where.kv[2][2]

RECURSIVE TrimEnd(_)
\* the text without the blanks at its end
TrimEnd(text) ==
    IF text # <<>> /\ text[Len(text)] = " "
    THEN TrimEnd(SubSeq(text, 1, Len(text) - 1))
    ELSE text

\* C28: a generic execute_crud select with an empty where ({}) and one with
\* an absent where both issue SELECT * FROM <table> with no WHERE keyword
\* and no bound parameters; the WHERE keyword is emitted only when there is
\* at least one constraint (blanks at the end of the text are not counted).
C28_NoWhereWithoutConstraints ==
    GenericIssued(Select) =>
        /\ Constraints(call.where) = <<>> =>
              /\ TrimEnd(dbLog[1].text) = <<"SELECT * FROM ">> \o Interp(call.table)
              /\ dbLog[1].params = <<>>
        /\ WhereAt(dbLog[1].text) <= Len(dbLog[1].text) =>
              Constraints(call.where) # <<>>

-----------------------------------------------------------------------------
(* Claims about the guards of POST /api/mcp/execute (SpecRest) *)

\* the body is one the endpoint has to refuse
Refusable ==
    LET op == ToLowerCase(call.operation) IN
    \/ call.operation = UndefinedStr
    \/ call.table = UndefinedStr
    \/ op = Update /\ (~Truthy(call.data) \/ ~Truthy(call.where))
    \/ op = Delete /\ ~Truthy(call.where)
    \/ op = Insert /\ ~Truthy(call.data)
    \/ op \notin {Select, Insert, Update, Delete}

\* C29: POST /api/mcp/execute answers HTTP 400 and executes no statement
\* when operation or table is missing, when the operation is update and data
\* or where is absent, when it is delete and where is absent, when it is
\* insert and data is absent, and when the operation is not one of select,
\* insert, update, delete.
C29_BadRequestsRefused ==
    (call.phase # "idle" /\ Refusable) =>
        /\ dbLog = <<>>
        /\ call.phase \in {"ready", "returned"}
        /\ call.phase = "returned" => Len(out) = 1 /\ out[1].status = 400

-----------------------------------------------------------------------------
(* Claims about the dispatch of handleCrudOperation (SpecCrud) *)

\* the typed client's method and the generic statement's first words, by
\* operation
TypedMethod(op) ==
    CASE op = Select -> "subject.findMany"
      [] op = Insert -> "subject.create"
      [] op = Update -> "subject.updateMany"
      [] op = Delete -> "subject.deleteMany"

Keyword(op) ==
    CASE op = Select -> "SELECT * FROM "
      [] op = Insert -> "INSERT INTO "
      [] op = Update -> "UPDATE "
      [] op = Delete -> "DELETE FROM "

\* C30: handleCrudOperation matches the operation name case-insensitively
\* (SELECT, Select and select dispatch the same way), while the typed fast
\* path is taken only when the table name is exactly "subjects"; any other
\* spelling of the table name, a different letter case included, takes the
\* generic path with the table name interpolated as given (stated of the
\* moment the statement is issued).
C30_OperationAnyCaseTableExact ==
    call.phase = "awaiting" =>
        LET op == ToLowerCase(call.operation)
            stmt == dbLog[1]
        IN /\ op \in {Select, Insert, Update, Delete}
           /\ IF call.table = Subjects
              THEN stmt.api = TypedMethod(op)
              ELSE /\ stmt.api = "$queryRawUnsafe"
                   /\ stmt.text[1] = Keyword(op)
                   /\ SubSeq(stmt.text, 2, 1 + Len(call.table)) = call.table

\* "Select" on the table "Subjects" has been issued as a generic statement
\* that names the table as given
C30_Witness ==
    /\ call.phase = "awaiting"
    /\ call.operation = TitleSelect
    /\ call.table = UpperSubjects
    /\ dbLog[1].api = "$queryRawUnsafe"
    /\ SubSeq(dbLog[1].text, 1, 9) = <<"SELECT * FROM ">> \o UpperSubjects

-----------------------------------------------------------------------------
(* Claims about select against database content (SpecStore) *)

\* C24: idempotence of select: the same execute_crud select issued twice
\* with identical arguments yields identical row sets when no write runs in
\* between, and a select never changes the database state.
C24_SelectIdempotent ==
    db.writes = 0 =>
        /\ call.phase = "twice" => out[1] = out[2]
        /\ db.users = db.before.users
        /\ db.subjects = db.before.subjects
        /\ db.seq = db.before.seq

====
